---- MODULE Spec2Model ----
(***************************************************************************)
(* Model of learning/optimize.py: the Problem derivative composer, the     *)
(* SteepestDescent and SteepestDescentMomentum optimizers and the Wolfe    *)
(* line-search conditions; and of the numeric gradient checker            *)
(* check_gradient of pynn/testing/tests/test_transfer.py.                  *)
(*                                                                         *)
(* The module is Python 2 code (bare `reduce`, `super(Cls, self)`), so     *)
(* `reduce` in _bundle_add is the builtin left fold.                       *)
(***************************************************************************)
EXTENDS Integers, Sequences, FiniteSets, TLC

VARIABLES
    phase,        \* Problem: "new" before __init__ ran, "built" after
    supplied,     \* Problem: the constructor arguments that are not None
    accessors,    \* Problem: the seven get_* attributes (callables)
    lastAcc,      \* Problem: accessor invoked last ("" when none yet)
    lastX,        \* Problem: argument of the last invocation
    lastRet,      \* Problem: value returned by the last invocation
    lastCalls,    \* Problem: the calls of supplied functions it made, in order
    called,       \* Problem: how often each supplied function was called
    invoked,      \* Problem: how often each accessor was invoked
    optimizer,    \* Optimizer: class and attributes of the optimizer instance
    objective,    \* Optimizer: which get_obj_jac the caller's Problem has
    heap,         \* Optimizer: the parameter arrays alive, by identity
    log,          \* Optimizer: the next() and reset() calls made so far
    wolfeArgs,    \* Wolfe: arguments of the last _wolfe_conditions call
    wolfeOut,     \* Wolfe: its outcome, a boolean or a raised error
    wolfeEvals,   \* Wolfe: the points obj_jac_func was called at during it
    gradArgs,     \* Gradient checker: arguments of the check_gradient call
    gradOut       \* Gradient checker: its outcome

problemVars ==
    <<phase, supplied, accessors, lastAcc, lastX, lastRet, lastCalls, called,
      invoked>>

optimizerVars == <<optimizer, objective, heap, log>>

wolfeVars == <<wolfeArgs, wolfeOut, wolfeEvals>>

gradVars == <<gradArgs, gradOut>>

vars == <<problemVars, optimizerVars, wolfeVars, gradVars>>

(***************************************************************************)
(* Bounds                                                                  *)
(***************************************************************************)
\* largest opaque input handed to an accessor of Problem
MaxX == 2

\* number of accessor invocations made on one Problem
MaxInvocations == 3

\* number of next() and reset() calls made on one optimizer
MaxCalls == 4

\* largest step size and largest momentum rate of an optimizer
MaxRate == 2

\* largest absolute value of a coordinate of a starting point
MaxCoord == 1

\* the gradient checker's numbers are integer multiples of the unit
\* epsilon/UnitsPerEpsilon
UnitsPerEpsilon == 2

\* largest absolute value, in units, of a coordinate of a checked input
MaxGradCoord == 3

\* largest length of a checked input vector
MaxLen == 2

\* the strictness constants c_1 and c_2 are the fractions n/CDen; the
\* operators below take the numerator n
CDen == 4

Xs == 1..MaxX

(***************************************************************************)
(* Python values as far as Problem sees them.  Every value is a record of  *)
(* one shape so that any two values can be compared.                       *)
(***************************************************************************)
\* the value None
None == [kind |-> "None", f |-> "", i |-> 0, x |-> 0, items |-> <<>>]

\* output number i of the supplied function f at input x: outputs of
\* different functions, positions and inputs are distinguishable
Out(f, i, x) == [kind |-> "value", f |-> f, i |-> i, x |-> x, items |-> <<>>]

\* a Python tuple
Tuple(items) == [kind |-> "tuple", f |-> "", i |-> 0, x |-> 0, items |-> items]

\* a Python list
List(items) == [kind |-> "list", f |-> "", i |-> 0, x |-> 0, items |-> items]

\* the outcome of an operation that raises TypeError
TypeError == [kind |-> "TypeError", f |-> "", i |-> 0, x |-> 0, items |-> <<>>]

\* values[i] with Python's 0-based index
GetItem(values, i) ==
    IF values.kind \in {"tuple", "list"} /\ i + 1 \in DOMAIN values.items
    THEN values.items[i + 1]
    ELSE TypeError

\* operator.add on two values: concatenation of two tuples or of two lists
Add(a, b) ==
    IF a.kind = b.kind /\ a.kind \in {"tuple", "list"}
    THEN [a EXCEPT !.items = a.items \o b.items]
    ELSE TypeError

\* reduce(operator.add, values) on a non-empty list of values
RECURSIVE ReduceAdd(_)
ReduceAdd(values) ==
    IF Len(values) = 1 THEN values[1]
    ELSE Add(ReduceAdd(SubSeq(values, 1, Len(values) - 1)), values[Len(values)])

(***************************************************************************)
(* The seven constructor arguments and what each returns when called.      *)
(***************************************************************************)
FuncNames == {"obj_func", "jac_func", "hess_func", "obj_jac_func",
              "obj_hess_func", "jac_hess_func", "obj_jac_hess_func"}

\* number of outputs of a supplied function
Arity(f) ==
    CASE f \in {"obj_func", "jac_func", "hess_func"} -> 1
      [] f \in {"obj_jac_func", "obj_hess_func", "jac_hess_func"} -> 2
      [] OTHER -> 3

\* f(x) for a supplied function f: a bare value, or a tuple of values (what
\* `return a, b` gives; _tuple_result and _bundle_add rely on it, a list
\* could not be added to the tuple they build)
FuncResult(f, x) ==
    IF Arity(f) = 1 THEN Out(f, 0, x)
    ELSE Tuple([k \in 1..Arity(f) |-> Out(f, k - 1, x)])

(***************************************************************************)
(* Callables: a supplied function, a module-level helper, or a             *)
(* functools.partial of a helper with its bound arguments.                 *)
(***************************************************************************)
Callable(op, f, idx, parts) == [op |-> op, f |-> f, idx |-> idx, parts |-> parts]

\* an attribute that was never assigned
Unset == Callable("unset", "", <<>>, <<>>)

\* the caller's function passed as constructor argument f
Supplied(f) == Callable("supplied", f, <<>>, <<>>)

\* functools.partial(helper, ...) with index arguments idx and callables parts
Partial(helper, idx, parts) == Callable(helper, "", idx, parts)

\* _return_none raising instead of returning None
_return_none_Raises == Callable("raise", "", <<>>, <<>>)

\* the module-level function _return_none
_return_none == Callable("_return_none", "", <<>>, <<>>)

(***************************************************************************)
(* Calling a callable with the argument x.                                 *)
(***************************************************************************)
RECURSIVE Call(_, _)

\* _call_return_indices(func, indices, x)
_call_return_indices(func, indices, x) ==
    LET values == Call(func, x)
    IN  List([k \in 1..Len(indices) |-> GetItem(values, indices[k])])

\* _call_return_index(func, index, x)
_call_return_index(func, index, x) == GetItem(Call(func, x), index)

\* _bundle(functions, x)
_bundle(functions, x) ==
    List([k \in 1..Len(functions) |-> Call(functions[k], x)])

\* _bundle_add(functions, x)
_bundle_add(functions, x) == ReduceAdd(_bundle(functions, x).items)

\* _bundle_add_split returning f_1's two outputs side by side, then f_2
_bundle_add_split_Unsplit(f_1, f_2, x) ==
    LET f_1_values == Call(f_1, x)
    IN  Tuple(<<GetItem(f_1_values, 0), GetItem(f_1_values, 1), Call(f_2, x)>>)

\* _bundle_add_split(f_1, f_2, x)
_bundle_add_split(f_1, f_2, x) ==
    LET f_1_values == Call(f_1, x)
    IN  Tuple(<<GetItem(f_1_values, 0), Call(f_2, x), GetItem(f_1_values, 1)>>)

\* _tuple_result(func, x)
_tuple_result(func, x) == Tuple(<<Call(func, x)>>)

\* c(x): a supplied function returns its outputs, a partial runs its helper
\* on the bound arguments followed by x
Call(c, x) ==
    CASE c.op = "supplied" -> FuncResult(c.f, x)
      [] c.op = "_call_return_index" -> _call_return_index(c.parts[1], c.idx[1], x)
      [] c.op = "_call_return_indices" -> _call_return_indices(c.parts[1], c.idx, x)
      [] c.op = "_bundle" -> _bundle(c.parts, x)
      [] c.op = "_bundle_add" -> _bundle_add(c.parts, x)
      [] c.op = "_bundle_add_split" -> _bundle_add_split(c.parts[1], c.parts[2], x)
      [] c.op = "_tuple_result" -> _tuple_result(c.parts[1], x)
      [] c.op = "_return_none" -> None
      [] OTHER -> TypeError

(***************************************************************************)
(* The calls of supplied functions that calling a callable makes, in       *)
(* order, each as <<function, argument>>.                                  *)
(***************************************************************************)
RECURSIVE Calls(_, _)

\* the calls made by [func(x) for func in functions]
RECURSIVE _bundle_calls(_, _)
_bundle_calls(functions, x) ==
    IF functions = <<>> THEN <<>>
    ELSE Calls(Head(functions), x) \o _bundle_calls(Tail(functions), x)

\* the calls made by _bundle_add_split: f_1 once, then f_2
_bundle_add_split_calls(f_1, f_2, x) == Calls(f_1, x) \o Calls(f_2, x)

\* the calls made by c(x)
Calls(c, x) ==
    CASE c.op = "supplied" -> << <<c.f, x>> >>
      [] c.op \in {"_call_return_index", "_call_return_indices", "_tuple_result"} ->
           Calls(c.parts[1], x)
      [] c.op \in {"_bundle", "_bundle_add"} -> _bundle_calls(c.parts, x)
      [] c.op = "_bundle_add_split" ->
           _bundle_add_split_calls(c.parts[1], c.parts[2], x)
      [] OTHER -> <<>>

\* number of calls of the function f in a sequence of calls
CountOf(f, calls) == Cardinality({k \in DOMAIN calls : calls[k][1] = f})

(***************************************************************************)
(* Problem.__init__: args is the set of constructor arguments that are     *)
(* not None.                                                               *)
(***************************************************************************)
\* self.get_obj with the final else branch missing
ResolveObj_NoElse(args) ==
    IF "obj_func" \in args THEN Supplied("obj_func")
    ELSE IF "obj_jac_func" \in args
    THEN Partial("_call_return_index", <<0>>, <<Supplied("obj_jac_func")>>)
    ELSE IF "obj_hess_func" \in args
    THEN Partial("_call_return_index", <<0>>, <<Supplied("obj_hess_func")>>)
    ELSE IF "obj_jac_hess_func" \in args
    THEN Partial("_call_return_index", <<0>>, <<Supplied("obj_jac_hess_func")>>)
    ELSE Unset

\* self.get_obj
ResolveObj(args) ==
    IF "obj_func" \in args THEN Supplied("obj_func")
    ELSE IF "obj_jac_func" \in args
    THEN Partial("_call_return_index", <<0>>, <<Supplied("obj_jac_func")>>)
    ELSE IF "obj_hess_func" \in args
    THEN Partial("_call_return_index", <<0>>, <<Supplied("obj_hess_func")>>)
    ELSE IF "obj_jac_hess_func" \in args
    THEN Partial("_call_return_index", <<0>>, <<Supplied("obj_jac_hess_func")>>)
    ELSE _return_none

\* self.get_jac taking output 0 of obj_jac_func
ResolveJac_WrongIndex(args) ==
    IF "jac_func" \in args THEN Supplied("jac_func")
    ELSE IF "obj_jac_func" \in args
    THEN Partial("_call_return_index", <<0>>, <<Supplied("obj_jac_func")>>)
    ELSE IF "jac_hess_func" \in args
    THEN Partial("_call_return_index", <<0>>, <<Supplied("jac_hess_func")>>)
    ELSE IF "obj_jac_hess_func" \in args
    THEN Partial("_call_return_index", <<1>>, <<Supplied("obj_jac_hess_func")>>)
    ELSE _return_none

\* self.get_jac
ResolveJac(args) ==
    IF "jac_func" \in args THEN Supplied("jac_func")
    ELSE IF "obj_jac_func" \in args
    THEN Partial("_call_return_index", <<1>>, <<Supplied("obj_jac_func")>>)
    ELSE IF "jac_hess_func" \in args
    THEN Partial("_call_return_index", <<0>>, <<Supplied("jac_hess_func")>>)
    ELSE IF "obj_jac_hess_func" \in args
    THEN Partial("_call_return_index", <<1>>, <<Supplied("obj_jac_hess_func")>>)
    ELSE _return_none

\* self.get_hess
ResolveHess(args) ==
    IF "hess_func" \in args THEN Supplied("hess_func")
    ELSE IF "obj_hess_func" \in args
    THEN Partial("_call_return_index", <<1>>, <<Supplied("obj_hess_func")>>)
    ELSE IF "jac_hess_func" \in args
    THEN Partial("_call_return_index", <<1>>, <<Supplied("jac_hess_func")>>)
    ELSE IF "obj_jac_hess_func" \in args
    THEN Partial("_call_return_index", <<2>>, <<Supplied("obj_jac_hess_func")>>)
    ELSE _return_none

\* self.get_obj_jac, given the already assigned self.get_obj and self.get_jac
ResolveObjJac(args, get_obj, get_jac) ==
    IF "obj_jac_func" \in args THEN Supplied("obj_jac_func")
    ELSE IF "obj_jac_hess_func" \in args
    THEN Partial("_call_return_indices", <<0, 1>>, <<Supplied("obj_jac_hess_func")>>)
    ELSE Partial("_bundle", <<>>, <<get_obj, get_jac>>)

\* self.get_obj_hess
ResolveObjHess(args, get_obj, get_hess) ==
    IF "obj_hess_func" \in args THEN Supplied("obj_hess_func")
    ELSE IF "obj_jac_hess_func" \in args
    THEN Partial("_call_return_indices", <<0, 2>>, <<Supplied("obj_jac_hess_func")>>)
    ELSE Partial("_bundle", <<>>, <<get_obj, get_hess>>)

\* self.get_jac_hess
ResolveJacHess(args, get_jac, get_hess) ==
    IF "jac_hess_func" \in args THEN Supplied("jac_hess_func")
    ELSE IF "obj_jac_hess_func" \in args
    THEN Partial("_call_return_indices", <<1, 2>>, <<Supplied("obj_jac_hess_func")>>)
    ELSE Partial("_bundle", <<>>, <<get_jac, get_hess>>)

\* self.get_obj_jac_hess
ResolveObjJacHess(args, get_obj, get_jac, get_hess) ==
    IF "obj_jac_hess_func" \in args THEN Supplied("obj_jac_hess_func")
    ELSE IF "obj_jac_func" \in args
    THEN Partial("_bundle_add", <<>>,
                 <<Supplied("obj_jac_func"),
                   Partial("_tuple_result", <<>>, <<get_hess>>)>>)
    ELSE IF "obj_hess_func" \in args
    THEN Partial("_bundle_add_split", <<>>, <<Supplied("obj_hess_func"), get_jac>>)
    ELSE IF "jac_hess_func" \in args
    THEN Partial("_bundle_add", <<>>,
                 <<Partial("_tuple_result", <<>>, <<get_obj>>),
                   Supplied("jac_hess_func")>>)
    ELSE Partial("_bundle", <<>>, <<get_obj, get_jac, get_hess>>)

AccessorNames == {"get_obj", "get_jac", "get_hess", "get_obj_jac",
                  "get_obj_hess", "get_jac_hess", "get_obj_jac_hess"}

\* the attributes of the instance once __init__ returned
Problem__init__(args) ==
    LET get_obj == ResolveObj(args)
        get_jac == ResolveJac(args)
        get_hess == ResolveHess(args)
    IN  [get_obj |-> get_obj,
         get_jac |-> get_jac,
         get_hess |-> get_hess,
         get_obj_jac |-> ResolveObjJac(args, get_obj, get_jac),
         get_obj_hess |-> ResolveObjHess(args, get_obj, get_hess),
         get_jac_hess |-> ResolveJacHess(args, get_jac, get_hess),
         get_obj_jac_hess |-> ResolveObjJacHess(args, get_obj, get_jac, get_hess)]

\* the instance before __init__ ran: no attribute is assigned
NoAttributes == [a \in AccessorNames |-> Unset]

(***************************************************************************)
(* Operations on a Problem                                                 *)
(***************************************************************************)
ProblemInit ==
    /\ phase = "new"
    /\ supplied = {}
    /\ accessors = NoAttributes
    /\ lastAcc = ""
    /\ lastX = 0
    /\ lastRet = None
    /\ lastCalls = <<>>
    /\ called = [f \in FuncNames |-> 0]
    /\ invoked = [acc \in AccessorNames |-> 0]

\* Problem(...) with exactly the arguments in args supplied
Construct(args) ==
    /\ phase = "new"
    /\ phase' = "built"
    /\ supplied' = args
    /\ accessors' = Problem__init__(args)
    /\ UNCHANGED <<lastAcc, lastX, lastRet, lastCalls, called, invoked>>
    /\ UNCHANGED <<optimizerVars, wolfeVars, gradVars>>

RECURSIVE SumOver(_, _)
SumOver(count, keys) ==
    IF keys = {} THEN 0
    ELSE LET k == CHOOSE k \in keys : TRUE
         IN  count[k] + SumOver(count, keys \ {k})

\* number of accessor invocations made so far
Invocations == SumOver(invoked, AccessorNames)

\* problem.<acc>(x) answering a repeated input from the previous result
Invoke_Memoized(acc, x) ==
    /\ phase = "built"
    /\ Invocations < MaxInvocations
    /\ lastAcc' = acc
    /\ lastX' = x
    /\ lastRet' = Call(accessors[acc], x)
    /\ lastCalls' = IF lastAcc = acc /\ lastX = x THEN <<>>
                    ELSE Calls(accessors[acc], x)
    /\ called' = [f \in FuncNames |-> called[f] + CountOf(f, lastCalls')]
    /\ invoked' = [invoked EXCEPT ![acc] = @ + 1]
    /\ UNCHANGED <<phase, supplied, accessors>>
    /\ UNCHANGED <<optimizerVars, wolfeVars, gradVars>>

\* problem.<acc>(x)
Invoke(acc, x) ==
    /\ phase = "built"
    /\ Invocations < MaxInvocations
    /\ lastAcc' = acc
    /\ lastX' = x
    /\ lastRet' = Call(accessors[acc], x)
    /\ lastCalls' = Calls(accessors[acc], x)
    /\ called' = [f \in FuncNames |-> called[f] + CountOf(f, lastCalls')]
    /\ invoked' = [invoked EXCEPT ![acc] = @ + 1]
    /\ UNCHANGED <<phase, supplied, accessors>>
    /\ UNCHANGED <<optimizerVars, wolfeVars, gradVars>>

ProblemNext ==
    \/ \E args \in SUBSET FuncNames : Construct(args)
    \/ \E acc \in AccessorNames, x \in Xs : Invoke(acc, x)

(***************************************************************************)
(* Vectors.  Numbers are integers: the arithmetic of next() is modelled    *)
(* exactly, without floating-point rounding.                               *)
(***************************************************************************)
\* the jacobian [2.0, -1.0] of the stub objective
StubJac == <<2, -1>>

Dim == Len(StubJac)

Coords == (0 - MaxCoord)..MaxCoord

Vectors == [1..Dim -> Coords]

\* a - b on arrays: a new array
VSub(a, b) == [k \in DOMAIN a |-> a[k] - b[k]]

\* a + b on arrays
VAdd(a, b) == [k \in DOMAIN a |-> a[k] + b[k]]

\* c * a for a number c and an array a
VScale(c, a) == [k \in DOMAIN a |-> c * a[k]]

RECURSIVE SumTo(_, _)
SumTo(a, n) == IF n = 0 THEN 0 ELSE SumTo(a, n - 1) + a[n]

\* a.dot(b) on one-dimensional arrays
Dot(a, b) == SumTo([k \in DOMAIN a |-> a[k] * b[k]], Len(a))

(***************************************************************************)
(* The objective of the caller: what obj_jac_func, and so get_obj_jac of a *)
(* Problem built from it, returns at x as (objective value, jacobian).     *)
(***************************************************************************)
Objectives == {"stub", "quadratic", "linear"}

obj_jac_func(fn, x) ==
    CASE fn = "stub" -> [obj |-> 5, jac |-> StubJac]
      [] fn = "quadratic" -> [obj |-> Dot(x, x), jac |-> VScale(2, x)]
      [] fn = "linear" -> [obj |-> Dot(StubJac, x), jac |-> StubJac]

(***************************************************************************)
(* Optimizers.  An attribute holding None is unset.                        *)
(***************************************************************************)
NoJacobian == [set |-> FALSE, value |-> <<>>]

Jacobian(g) == [set |-> TRUE, value |-> g]

\* SteepestDescent(step_size)
SteepestDescent__init__(step_size) ==
    [class |-> "SteepestDescent", _step_size |-> step_size,
     _momentum_rate |-> 0, _prev_jacobian |-> NoJacobian]

\* SteepestDescent.reset(self): the attributes afterwards
SteepestDescent_reset(self) == self

\* SteepestDescent.next stepping up the jacobian
SteepestDescent_next_Ascent(self, fn, h, pid) ==
    LET result == obj_jac_func(fn, h[pid])
        stepped == VAdd(h[pid], VScale(self._step_size, result.jac))
    IN  [self |-> self,
         heap |-> Append(h, stepped),
         obj_value |-> result.obj,
         jacobian |-> result.jac,
         ret |-> Len(h) + 1]

\* SteepestDescent.next(self, problem, parameters), where parameters is the
\* array h[pid]: the attributes and the arrays afterwards, and the returned
\* objective value and array
SteepestDescent_next(self, fn, h, pid) ==
    LET result == obj_jac_func(fn, h[pid])
        stepped == VSub(h[pid], VScale(self._step_size, result.jac))
    IN  [self |-> self,
         heap |-> Append(h, stepped),
         obj_value |-> result.obj,
         jacobian |-> result.jac,
         ret |-> Len(h) + 1]

\* SteepestDescentMomentum(step_size, momentum_rate)
SteepestDescentMomentum__init__(step_size, momentum_rate) ==
    [class |-> "SteepestDescentMomentum", _step_size |-> step_size,
     _momentum_rate |-> momentum_rate, _prev_jacobian |-> NoJacobian]

\* SteepestDescentMomentum.reset storing a zero jacobian
SteepestDescentMomentum_reset_Zero(self) ==
    [self EXCEPT !._prev_jacobian = Jacobian([k \in 1..Dim |-> 0])]

\* SteepestDescentMomentum.reset(self)
SteepestDescentMomentum_reset(self) ==
    [self EXCEPT !._prev_jacobian = NoJacobian]

\* SteepestDescentMomentum.next updating parameters in place
\* (parameters -= step_size*jacobian)
SteepestDescentMomentum_next_InPlace(self, fn, h, pid) ==
    LET result == obj_jac_func(fn, h[pid])
        h1 == [h EXCEPT ![pid] = VSub(h[pid], VScale(self._step_size, result.jac))]
        h2 == IF self._prev_jacobian.set
              THEN [h1 EXCEPT ![pid] =
                       VSub(h1[pid],
                            VScale(self._step_size * self._momentum_rate,
                                   self._prev_jacobian.value))]
              ELSE h1
    IN  [self |-> self,
         heap |-> h2,
         obj_value |-> result.obj,
         jacobian |-> result.jac,
         ret |-> pid]

\* SteepestDescentMomentum.next(self, problem, parameters): next_parameters
\* is a new array, updated in place by the momentum term; no attribute of
\* self is assigned
SteepestDescentMomentum_next(self, fn, h, pid) ==
    LET result == obj_jac_func(fn, h[pid])
        next_parameters == Len(h) + 1
        h1 == Append(h, VSub(h[pid], VScale(self._step_size, result.jac)))
        h2 == IF self._prev_jacobian.set
              THEN [h1 EXCEPT ![next_parameters] =
                       VSub(h1[next_parameters],
                            VScale(self._step_size * self._momentum_rate,
                                   self._prev_jacobian.value))]
              ELSE h1
    IN  [self |-> self,
         heap |-> h2,
         obj_value |-> result.obj,
         jacobian |-> result.jac,
         ret |-> next_parameters]

\* optimizer.reset() by the class of the instance
Optimizer_reset(self) ==
    IF self.class = "SteepestDescent" THEN SteepestDescent_reset(self)
    ELSE SteepestDescentMomentum_reset(self)

\* optimizer.next(problem, parameters) by the class of the instance
Optimizer_next(self, fn, h, pid) ==
    IF self.class = "SteepestDescent" THEN SteepestDescent_next(self, fn, h, pid)
    ELSE SteepestDescentMomentum_next(self, fn, h, pid)

Rates == 1..MaxRate

\* one entry of the log of calls
ResetEntry ==
    [call |-> "reset", x |-> <<>>, obj_value |-> 0, jacobian |-> <<>>,
     arg |-> 0, ret |-> 0]

NextEntry(pid, x, out) ==
    [call |-> "next", x |-> x, obj_value |-> out.obj_value,
     jacobian |-> out.jacobian, arg |-> pid, ret |-> out.ret]

\* an outcome: the value returned, or the error raised
Returned(value) == [raised |-> "", value |-> value]

Raised(error) == [raised |-> error, value |-> FALSE]

\* no outcome yet
NotCalled == [raised |-> "not called", value |-> FALSE]

NoWolfeArgs ==
    [step_size |-> 0, parameters |-> <<>>, obj_xk |-> 0, jac_xk |-> <<>>,
     step_dir |-> <<>>, fn |-> "stub", c_1 |-> 0, c_2 |-> 0]

\* _wolfe_conditions was not called
WolfeIdle ==
    /\ wolfeArgs = NoWolfeArgs
    /\ wolfeOut = NotCalled
    /\ wolfeEvals = <<>>

NoGradArgs == [f |-> "", df |-> "", inputs |-> <<>>]

\* check_gradient is not in use
GradientIdle ==
    /\ gradArgs = NoGradArgs
    /\ gradOut = "not called"

\* no optimizer exists
OptimizerIdle ==
    /\ optimizer = SteepestDescent__init__(0)
    /\ objective = "stub"
    /\ heap = <<>>
    /\ log = <<>>

\* no Problem is under construction
ProblemIdle ==
    /\ phase = "idle"
    /\ supplied = {}
    /\ accessors = NoAttributes
    /\ lastAcc = ""
    /\ lastX = 0
    /\ lastRet = None
    /\ lastCalls = <<>>
    /\ called = [f \in FuncNames |-> 0]
    /\ invoked = [acc \in AccessorNames |-> 0]

\* a just-constructed optimizer, the caller's Problem and starting point
OptimizerInit ==
    /\ ProblemIdle
    /\ WolfeIdle
    /\ GradientIdle
    /\ optimizer \in
          {SteepestDescent__init__(a) : a \in Rates}
          \cup {SteepestDescentMomentum__init__(a, b) : a \in Rates, b \in Rates}
    /\ objective \in Objectives
    /\ heap \in {<<x>> : x \in Vectors}
    /\ log = <<>>

\* optimizer.next(problem, parameters) with the caller's array pid
NextCall(pid) ==
    /\ Len(log) < MaxCalls
    /\ LET out == Optimizer_next(optimizer, objective, heap, pid)
       IN  /\ optimizer' = out.self
           /\ heap' = out.heap
           /\ log' = Append(log, NextEntry(pid, heap[pid], out))
    /\ UNCHANGED objective
    /\ UNCHANGED <<problemVars, wolfeVars, gradVars>>

\* optimizer.reset()
ResetCall ==
    /\ Len(log) < MaxCalls
    /\ optimizer' = Optimizer_reset(optimizer)
    /\ log' = Append(log, ResetEntry)
    /\ UNCHANGED <<objective, heap>>
    /\ UNCHANGED <<problemVars, wolfeVars, gradVars>>

OptimizerNext ==
    \/ \E pid \in DOMAIN heap : NextCall(pid)
    \/ ResetCall

(***************************************************************************)
(* Wolfe conditions.  A strictness constant c is passed as the numerator   *)
(* of c = n/CDen, and both sides of a comparison are multiplied by CDen.   *)
(***************************************************************************)
\* _armijo_rule(step_size, obj_xk, jac_xk, step_dir, obj_xk_plus_ap, c_1)
_armijo_rule(step_size, obj_xk, jac_xk, step_dir, obj_xk_plus_ap, c_1) ==
    CDen * obj_xk_plus_ap
       <= CDen * obj_xk + Dot(VScale(c_1 * step_size, jac_xk), step_dir)

\* _curvature_condition(jac_xk, step_dir, jac_xk_plus_ap, c_2)
_curvature_condition(jac_xk, step_dir, jac_xk_plus_ap, c_2) ==
    CDen * Dot(jac_xk_plus_ap, step_dir) >= Dot(VScale(c_2, jac_xk), step_dir)

\* the guard without c_1 < c_2
ValidStrictness_Unordered(c_1, c_2) == 0 < c_1 /\ c_1 < CDen /\ 0 < c_2 /\ c_2 < CDen

\* the guard 0 < c_1 < c_2 < 1
ValidStrictness(c_1, c_2) == 0 < c_1 /\ c_1 < c_2 /\ c_2 < CDen

\* _wolfe_conditions subtracting the step direction
_wolfe_conditions_Subtract(step_size, parameters, obj_xk, jac_xk, step_dir, fn, c_1, c_2) ==
    IF ~ValidStrictness(c_1, c_2)
    THEN [out |-> Raised("ValueError"), evals |-> <<>>]
    ELSE LET point == VSub(parameters, VScale(step_size, step_dir))
             at == obj_jac_func(fn, point)
             wolfe == /\ _armijo_rule(step_size, obj_xk, jac_xk, step_dir,
                                      at.obj, c_1)
                      /\ _curvature_condition(jac_xk, step_dir, at.jac, c_2)
         IN  [out |-> Returned(wolfe), evals |-> <<point>>]

\* _wolfe_conditions calling obj_jac_func once for each sub-condition
_wolfe_conditions_Twice(step_size, parameters, obj_xk, jac_xk, step_dir, fn, c_1, c_2) ==
    IF ~ValidStrictness(c_1, c_2)
    THEN [out |-> Raised("ValueError"), evals |-> <<>>]
    ELSE LET point == VAdd(parameters, VScale(step_size, step_dir))
             wolfe == /\ _armijo_rule(step_size, obj_xk, jac_xk, step_dir,
                                      obj_jac_func(fn, point).obj, c_1)
                      /\ _curvature_condition(jac_xk, step_dir,
                                              obj_jac_func(fn, point).jac, c_2)
         IN  [out |-> Returned(wolfe), evals |-> <<point, point>>]

\* _wolfe_conditions(...): the outcome and the points obj_jac_func (fn) was
\* called at, in order
_wolfe_conditions(step_size, parameters, obj_xk, jac_xk, step_dir, fn, c_1, c_2) ==
    IF ~ValidStrictness(c_1, c_2)
    THEN [out |-> Raised("ValueError"), evals |-> <<>>]
    ELSE LET point == VAdd(parameters, VScale(step_size, step_dir))
             at == obj_jac_func(fn, point)
             wolfe == /\ _armijo_rule(step_size, obj_xk, jac_xk, step_dir,
                                      at.obj, c_1)
                      /\ _curvature_condition(jac_xk, step_dir, at.jac, c_2)
         IN  [out |-> Returned(wolfe), evals |-> <<point>>]

\* numerators of the strictness constants tried, from below 0 to above 1
Strictness == (0 - 1)..(CDen + 1)

StepSizes == 0..MaxRate

\* the arguments a line search passes: at the point x it has evaluated
\* obj_jac_func before
WolfeArgs(a, x, p, fn, c_1, c_2) ==
    LET xk == obj_jac_func(fn, x)
    IN  [step_size |-> a, parameters |-> x, obj_xk |-> xk.obj,
         jac_xk |-> xk.jac, step_dir |-> p, fn |-> fn, c_1 |-> c_1, c_2 |-> c_2]

\* a line search is about to call _wolfe_conditions
WolfeInit ==
    /\ ProblemIdle
    /\ OptimizerIdle
    /\ GradientIdle
    /\ wolfeArgs \in {WolfeArgs(a, x, p, fn, c_1, c_2) :
                         a \in StepSizes, x \in Vectors, p \in Vectors,
                         fn \in Objectives, c_1 \in Strictness, c_2 \in Strictness}
    /\ wolfeOut = NotCalled
    /\ wolfeEvals = <<>>

\* the call _wolfe_conditions(step_size, parameters, obj_xk, jac_xk,
\* step_dir, obj_jac_func, c_1, c_2)
WolfeCall ==
    /\ wolfeOut = NotCalled
    /\ wolfeArgs # NoWolfeArgs
    /\ LET result == _wolfe_conditions(wolfeArgs.step_size, wolfeArgs.parameters,
                                       wolfeArgs.obj_xk, wolfeArgs.jac_xk,
                                       wolfeArgs.step_dir, wolfeArgs.fn,
                                       wolfeArgs.c_1, wolfeArgs.c_2)
       IN  /\ wolfeOut' = result.out
           /\ wolfeEvals' = result.evals
    /\ UNCHANGED <<wolfeArgs, problemVars, optimizerVars, gradVars>>

WolfeNext == WolfeCall

(***************************************************************************)
(* The numeric gradient checker of testing/tests/test_transfer.py.  A      *)
(* number is an integer count of units, a product of two numbers a count   *)
(* of squared units, and a quotient is kept as a fraction: the arithmetic  *)
(* is exact, without floating-point rounding.                              *)
(***************************************************************************)
\* |a|
Abs(a) == IF a < 0 THEN 0 - a ELSE a

\* the functions checked and the derivatives offered for them
CheckedFunctions == {"x**2"}

Derivatives == {"2*x", "3*x"}

\* f(x), elementwise on an array
Apply(f, x) == [k \in DOMAIN x |-> IF f = "x**2" THEN x[k] * x[k] ELSE x[k]]

\* df(x), elementwise on an array
ApplyDerivative(df, x) ==
    [k \in DOMAIN x |-> IF df = "2*x" THEN 2 * x[k] ELSE 3 * x[k]]

\* _approximate_ith with x_minus_i left at x
_approximate_ith_OneSided(i, f, x, epsilon) ==
    LET x_plus_i == [x EXCEPT ![i] = @ + epsilon]
        x_minus_i == x
    IN  [num |-> Apply(f, x_plus_i)[i] - Apply(f, x_minus_i)[i],
         den |-> 2 * epsilon]

\* _approximate_ith(i, f, x, epsilon): the fraction num/den
_approximate_ith(i, f, x, epsilon) ==
    LET x_plus_i == [x EXCEPT ![i] = @ + epsilon]
        x_minus_i == [x EXCEPT ![i] = @ - epsilon]
    IN  [num |-> Apply(f, x_plus_i)[i] - Apply(f, x_minus_i)[i],
         den |-> 2 * epsilon]

\* _approximate_gradient(f, x, epsilon)
_approximate_gradient(f, x, epsilon) ==
    [i \in DOMAIN x |-> _approximate_ith(i, f, x, epsilon)]

\* check_gradient(f, df, inputs, epsilon): the assertion
\* mean(abs(df(inputs) - approximation)) <= epsilon, with both sides
\* multiplied by the common denominator 2*epsilon and by the length
check_gradient(f, df, inputs, epsilon) ==
    LET approx == _approximate_gradient(f, inputs, epsilon)
        exact == ApplyDerivative(df, inputs)
        errors == [k \in DOMAIN inputs |->
                      Abs(exact[k] * approx[k].den - approx[k].num)]
    IN  IF SumTo(errors, Len(inputs)) <= epsilon * (2 * epsilon) * Len(inputs)
        THEN "passed"
        ELSE "AssertionError"

\* the input vectors tried
GradInputs ==
    UNION {[1..n -> (0 - MaxGradCoord)..MaxGradCoord] : n \in 1..MaxLen}

\* a test is about to call check_gradient(f, df, inputs) with the default
\* epsilon
GradientInit ==
    /\ ProblemIdle
    /\ OptimizerIdle
    /\ WolfeIdle
    /\ gradArgs \in [f : CheckedFunctions, df : Derivatives, inputs : GradInputs]
    /\ gradOut = "not called"

\* the call check_gradient(f, df, inputs)
GradientCall ==
    /\ gradOut = "not called"
    /\ gradArgs # NoGradArgs
    /\ gradOut' = check_gradient(gradArgs.f, gradArgs.df, gradArgs.inputs,
                                 UnitsPerEpsilon)
    /\ UNCHANGED <<gradArgs, problemVars, optimizerVars, wolfeVars>>

GradientNext == GradientCall

(***************************************************************************)
(* Specifications                                                          *)
(***************************************************************************)
Init == ProblemInit /\ OptimizerIdle /\ WolfeIdle /\ GradientIdle

Next == ProblemNext

\* a Problem is constructed and its accessors are invoked
Spec == Init /\ [][Next]_vars

\* an optimizer is driven through next() and reset() calls
SpecOptimizer == OptimizerInit /\ [][OptimizerNext]_vars

\* a line search evaluates the Wolfe conditions
SpecWolfe == WolfeInit /\ [][WolfeNext]_vars

\* a test checks a derivative against the central differences
SpecGradient == GradientInit /\ [][GradientNext]_vars

(***************************************************************************)
(* The priority tables of the class documentation, used to state what the  *)
(* accessors are expected to return.                                       *)
(***************************************************************************)
Min(set) == CHOOSE m \in set : \A n \in set : m <= n

\* priority order of the sources of one value: <<function, output position>>
SourceOrder(acc) ==
    CASE acc = "get_obj" ->
           << <<"obj_func", 0>>, <<"obj_jac_func", 0>>,
              <<"obj_hess_func", 0>>, <<"obj_jac_hess_func", 0>> >>
      [] acc = "get_jac" ->
           << <<"jac_func", 0>>, <<"obj_jac_func", 1>>,
              <<"jac_hess_func", 0>>, <<"obj_jac_hess_func", 1>> >>
      [] acc = "get_hess" ->
           << <<"hess_func", 0>>, <<"obj_hess_func", 1>>,
              <<"jac_hess_func", 1>>, <<"obj_jac_hess_func", 2>> >>

\* the positions of SourceOrder(acc) whose function was supplied
Available(acc, args) ==
    {k \in DOMAIN SourceOrder(acc) : SourceOrder(acc)[k][1] \in args}

\* obj, jac or hess has a source
HasSource(acc, args) == Available(acc, args) # {}

\* the value of the first available source of obj, jac or hess at x
FirstSource(acc, args, x) ==
    LET src == SourceOrder(acc)[Min(Available(acc, args))]
    IN  Out(src[1], src[2], x)

\* the resolved obj, jac or hess: its first source, None without one
Resolved(acc, args, x) ==
    IF HasSource(acc, args) THEN FirstSource(acc, args, x) ELSE None

\* the two single accessors a pair accessor is made of
PairParts(acc) ==
    CASE acc = "get_obj_jac" -> <<"get_obj", "get_jac">>
      [] acc = "get_obj_hess" -> <<"get_obj", "get_hess">>
      [] acc = "get_jac_hess" -> <<"get_jac", "get_hess">>

\* the function returning exactly the pair, and the positions of the pair
\* in the output of obj_jac_hess_func
PairFunc(acc) ==
    CASE acc = "get_obj_jac" -> <<"obj_jac_func", 0, 1>>
      [] acc = "get_obj_hess" -> <<"obj_hess_func", 0, 2>>
      [] acc = "get_jac_hess" -> <<"jac_hess_func", 1, 2>>

\* the components a pair accessor is expected to return at x
ExpectedPair(acc, args, x) ==
    IF PairFunc(acc)[1] \in args
    THEN <<Out(PairFunc(acc)[1], 0, x), Out(PairFunc(acc)[1], 1, x)>>
    ELSE IF "obj_jac_hess_func" \in args
    THEN <<Out("obj_jac_hess_func", PairFunc(acc)[2], x),
           Out("obj_jac_hess_func", PairFunc(acc)[3], x)>>
    ELSE <<Resolved(PairParts(acc)[1], args, x),
           Resolved(PairParts(acc)[2], args, x)>>

\* the components get_obj_jac_hess is expected to return at x
ExpectedTriple(args, x) ==
    IF "obj_jac_hess_func" \in args
    THEN <<Out("obj_jac_hess_func", 0, x), Out("obj_jac_hess_func", 1, x),
           Out("obj_jac_hess_func", 2, x)>>
    ELSE IF "obj_jac_func" \in args
    THEN <<Out("obj_jac_func", 0, x), Out("obj_jac_func", 1, x),
           Resolved("get_hess", args, x)>>
    ELSE IF "obj_hess_func" \in args
    THEN <<Out("obj_hess_func", 0, x), Resolved("get_jac", args, x),
           Out("obj_hess_func", 1, x)>>
    ELSE IF "jac_hess_func" \in args
    THEN <<Resolved("get_obj", args, x), Out("jac_hess_func", 0, x),
           Out("jac_hess_func", 1, x)>>
    ELSE <<Resolved("get_obj", args, x), Resolved("get_jac", args, x),
           Resolved("get_hess", args, x)>>

SingleAccessors == {"get_obj", "get_jac", "get_hess"}

PairAccessors == {"get_obj_jac", "get_obj_hess", "get_jac_hess"}

\* an accessor was invoked on a constructed Problem
Invoked(acc) == phase = "built" /\ lastAcc = acc

\* a value is a tuple or a list with exactly these components
HasComponents(value, items) ==
    value.kind \in {"tuple", "list"} /\ value.items = items

Parts(acc) ==
    CASE acc \in SingleAccessors -> <<acc>>
      [] acc \in PairAccessors -> PairParts(acc)
      [] OTHER -> <<"get_obj", "get_jac", "get_hess">>

\* some value the accessor is to deliver has no source
LacksSource(acc, args) ==
    \E k \in DOMAIN Parts(acc) : ~HasSource(Parts(acc)[k], args)

\* C3 as claimed: each of the seven accessors returns None when it lacks a
\* source
C3_Original ==
    \A acc \in AccessorNames :
       Invoked(acc) /\ LacksSource(acc, supplied) => lastRet = None

\* C3 as amended: get_obj, get_jac and get_hess return None when they have
\* no source; a composed accessor never raises and never returns None
\* itself: it returns its two or three components, and each component that
\* has no source is None
C3_Amended ==
    /\ \A acc \in SingleAccessors :
          Invoked(acc) /\ ~HasSource(acc, supplied) => lastRet = None
    /\ \A acc \in AccessorNames \ SingleAccessors :
          Invoked(acc)
             => /\ lastRet.kind \in {"tuple", "list"}
                /\ Len(lastRet.items) = Len(Parts(acc))
                /\ \A k \in DOMAIN Parts(acc) :
                      ~HasSource(Parts(acc)[k], supplied)
                         => lastRet.items[k] = None

\* get_obj_jac of the Problem constructed with no function at all
C3_Witness ==
    /\ Invoked("get_obj_jac")
    /\ supplied = {}
    /\ lastRet = List(<<None, None>>)

(***************************************************************************)
(* C10: after construction each of the seven accessors holds a callable,   *)
(* whatever subset of functions was supplied, and invoking an accessor     *)
(* never changes any of them.                                              *)
(***************************************************************************)
CallableOps == {"supplied", "_call_return_index", "_call_return_indices",
                "_bundle", "_bundle_add", "_bundle_add_split",
                "_tuple_result", "_return_none"}

Populated == \A acc \in AccessorNames : accessors[acc].op \in CallableOps

C10_AccessorsPopulated ==
    /\ [](phase = "built" => Populated)
    /\ [][phase = "built" => accessors' = accessors /\ Populated']_vars

\* the Problem constructed with no function, after one of its accessors ran
C10_Witness ==
    /\ Invoked("get_jac_hess")
    /\ supplied = {}
    /\ Populated
    /\ accessors = Problem__init__({})

(***************************************************************************)
(* Reading the log of an optimizer                                         *)
(***************************************************************************)
\* the most recent call
Last == log[Len(log)]

\* position of the most recent reset() in the log, 0 when there is none
LastResetPos ==
    LET resets == {k \in DOMAIN log : log[k].call = "reset"}
    IN  IF resets = {} THEN 0 ELSE CHOOSE k \in resets : \A j \in resets : j <= k

\* the next() calls made since the most recent reset(), or since construction
Epoch == SubSeq(log, LastResetPos + 1, Len(log))

\* the most recent call was next()
AfterNext == log # <<>> /\ Last.call = "next"

\* what get_obj_jac of the caller's Problem returns at x
ProblemObjJac(x) == obj_jac_func(objective, x)

(***************************************************************************)
(* C4: the first next() of SteepestDescentMomentum after reset() or        *)
(* construction applies no momentum term, the second returns               *)
(* parameters - step_size*jacobian_2 - step_size*momentum_rate*jacobian_1, *)
(* and after every next() the previous jacobian is the jacobian of that    *)
(* call.                                                                   *)
(***************************************************************************)
C4_MomentumApplied ==
    optimizer.class = "SteepestDescentMomentum" /\ AfterNext
       => /\ Len(Epoch) = 1
                => heap[Last.ret] =
                      VSub(Last.x, VScale(optimizer._step_size, Last.jacobian))
          /\ Len(Epoch) = 2
                => heap[Last.ret] =
                      VSub(VSub(Last.x,
                                VScale(optimizer._step_size, Last.jacobian)),
                           VScale(optimizer._step_size * optimizer._momentum_rate,
                                  Epoch[1].jacobian))
          /\ optimizer._prev_jacobian = Jacobian(Last.jacobian)

(***************************************************************************)
(* C5: every next() of SteepestDescent returns (v, x - step_size*g) where  *)
(* (v, g) is get_obj_jac at the input x, whatever calls were made before;  *)
(* with step size 1 and get_obj_jac = (5, [2, -1]) it returns              *)
(* (5, [x0 - 2, x1 + 1]).                                                  *)
(***************************************************************************)
C5_SteepestDescentStep ==
    optimizer.class = "SteepestDescent"
       => \A n \in DOMAIN log :
             log[n].call = "next"
                => /\ log[n].obj_value = ProblemObjJac(log[n].x).obj
                   /\ \A k \in 1..Dim :
                         heap[log[n].ret][k] =
                            log[n].x[k]
                               - optimizer._step_size * ProblemObjJac(log[n].x).jac[k]
                   /\ optimizer._step_size = 1 /\ objective = "stub"
                         => /\ log[n].obj_value = 5
                            /\ heap[log[n].ret] =
                                  <<log[n].x[1] - 2, log[n].x[2] + 1>>

\* step size 1 on the stub objective, after a reset() and an earlier next()
C5_Witness ==
    /\ optimizer.class = "SteepestDescent"
    /\ optimizer._step_size = 1
    /\ objective = "stub"
    /\ Len(log) >= 3
    /\ log[1].call = "next"
    /\ log[2].call = "reset"
    /\ AfterNext
    /\ Last.obj_value = 5
    /\ heap[Last.ret] = <<Last.x[1] - 2, Last.x[2] + 1>>

(***************************************************************************)
(* C8: next() of either optimizer leaves every array of the caller as it   *)
(* was, returns an array that did not exist before, and changes neither    *)
(* the Problem nor the step size nor the momentum rate.                    *)
(***************************************************************************)
\* this step is a call of next()
IsNextStep == Len(log') = Len(log) + 1 /\ log'[Len(log')].call = "next"

C8_NextMutatesNothing ==
    [][IsNextStep
          => /\ \A id \in DOMAIN heap : id \in DOMAIN heap' /\ heap'[id] = heap[id]
             /\ log'[Len(log')].ret \notin DOMAIN heap
             /\ log'[Len(log')].ret \in DOMAIN heap'
             /\ objective' = objective
             /\ problemVars' = problemVars
             /\ optimizer'._step_size = optimizer._step_size
             /\ optimizer'._momentum_rate = optimizer._momentum_rate]_vars

\* a momentum optimizer stepped twice from the same array, which still
\* holds the values it was passed with
C8_Witness ==
    /\ optimizer.class = "SteepestDescentMomentum"
    /\ Len(log) >= 2
    /\ log[1].call = "next"
    /\ AfterNext
    /\ Last.arg = log[1].arg
    /\ heap[Last.arg] = log[1].x
    /\ Last.ret # Last.arg
    /\ heap[Last.ret] # heap[Last.arg]

(***************************************************************************)
(* C9: reset() of SteepestDescentMomentum restores the just-constructed    *)
(* state (previous jacobian unset, step size and momentum rate kept) and   *)
(* touches nothing else, so the first next() after it returns what the     *)
(* first next() of a fresh optimizer with the same hyperparameters does.   *)
(***************************************************************************)
\* this step is a call of reset()
IsResetStep == Len(log') = Len(log) + 1 /\ log'[Len(log')].call = "reset"

\* the optimizer a fresh construction with the same hyperparameters gives
Fresh ==
    SteepestDescentMomentum__init__(optimizer._step_size, optimizer._momentum_rate)

\* what next() of that fresh optimizer returns for the parameters x
FreshResult(x) ==
    LET out == Optimizer_next(Fresh, objective, <<x>>, 1)
    IN  <<out.obj_value, out.heap[out.ret]>>

C9_ResetRestoresConstruction ==
    /\ [][IsResetStep /\ optimizer.class = "SteepestDescentMomentum"
             => /\ optimizer' = Fresh
                /\ ~optimizer'._prev_jacobian.set
                /\ heap' = heap
                /\ objective' = objective
                /\ problemVars' = problemVars]_vars
    /\ [](/\ optimizer.class = "SteepestDescentMomentum"
          /\ AfterNext
          /\ Len(Epoch) = 1
          => /\ <<Last.obj_value, heap[Last.ret]>> = FreshResult(Last.x)
             /\ heap[Last.ret] =
                   VSub(Last.x, VScale(optimizer._step_size, Last.jacobian)))

\* two next() calls, a reset(), and the first next() after it
C9_Witness ==
    /\ optimizer.class = "SteepestDescentMomentum"
    /\ Len(log) = 4
    /\ log[1].call = "next"
    /\ log[2].call = "next"
    /\ log[3].call = "reset"
    /\ AfterNext
    /\ Last.jacobian # <<0, 0>>
    /\ <<Last.obj_value, heap[Last.ret]>> = FreshResult(Last.x)

(***************************************************************************)
(* C6: with strictness constants that violate 0 < c1 < c2 < 1,             *)
(* _wolfe_conditions raises the invalid-parameter error, returns no        *)
(* boolean and has called obj_jac_func zero times.                         *)
(***************************************************************************)
\* _wolfe_conditions has been called
WolfeCalled == wolfeOut # NotCalled

\* the constants of the last call satisfy 0 < c1 < c2 < 1
C_Valid ==
    /\ 0 < wolfeArgs.c_1
    /\ wolfeArgs.c_1 < wolfeArgs.c_2
    /\ wolfeArgs.c_2 < CDen

C6_InvalidStrictnessFails ==
    WolfeCalled /\ ~C_Valid
       => /\ wolfeOut = Raised("ValueError")
          /\ wolfeEvals = <<>>

\* c1 = 2/CDen above c2 = 1/CDen, both inside (0, 1)
C6_Witness ==
    /\ WolfeCalled
    /\ wolfeArgs.c_1 = 2
    /\ wolfeArgs.c_2 = 1
    /\ wolfeArgs.step_dir # <<0, 0>>
    /\ wolfeOut.raised = "ValueError"
    /\ wolfeEvals = <<>>

(***************************************************************************)
(* C7: with valid constants, _wolfe_conditions returns true exactly when   *)
(* f(x + a*p) <= f(x) + c1*a*(p . grad f(x)) and                           *)
(* (p . grad f(x + a*p)) >= c2*(p . grad f(x)), with f and grad f at       *)
(* x + a*p taken from obj_jac_func at that point.                          *)
(***************************************************************************)
\* the candidate point x + a*p of the last call
Candidate ==
    [k \in 1..Dim |->
        wolfeArgs.parameters[k] + wolfeArgs.step_size * wolfeArgs.step_dir[k]]

\* p . g
Slope(g) == SumTo([k \in 1..Dim |-> wolfeArgs.step_dir[k] * g[k]], Dim)

\* the Armijo rule, with c1 = c_1/CDen multiplied out
ArmijoHolds ==
    CDen * obj_jac_func(wolfeArgs.fn, Candidate).obj
       <= CDen * wolfeArgs.obj_xk
             + wolfeArgs.c_1 * wolfeArgs.step_size * Slope(wolfeArgs.jac_xk)

\* the curvature condition, with c2 = c_2/CDen multiplied out
CurvatureHolds ==
    CDen * Slope(obj_jac_func(wolfeArgs.fn, Candidate).jac)
       >= wolfeArgs.c_2 * Slope(wolfeArgs.jac_xk)

C7_WolfeIffBoth ==
    WolfeCalled /\ C_Valid
       => /\ wolfeOut.raised = ""
          /\ wolfeOut.value = (ArmijoHolds /\ CurvatureHolds)

\* a step along a descent direction of the quadratic objective that is
\* accepted, where stepping against the direction would not be
C7_Witness ==
    /\ WolfeCalled
    /\ C_Valid
    /\ wolfeArgs.fn = "quadratic"
    /\ wolfeArgs.step_size > 0
    /\ Slope(wolfeArgs.jac_xk) < 0
    /\ wolfeOut = Returned(TRUE)
    /\ ArmijoHolds
    /\ CurvatureHolds

(***************************************************************************)
(* C12: with valid constants, one call of _wolfe_conditions calls          *)
(* obj_jac_func exactly once, at the candidate point x + a*p, whether the  *)
(* Armijo rule and the curvature condition hold or not.                    *)
(***************************************************************************)
C12_OneEvaluationAtCandidate ==
    WolfeCalled /\ C_Valid
       => /\ Len(wolfeEvals) = 1
          /\ wolfeEvals[1] = Candidate

\* the Armijo rule fails at a candidate point other than x, and the
\* function was still evaluated once, there
C12_Witness ==
    /\ WolfeCalled
    /\ C_Valid
    /\ ~ArmijoHolds
    /\ wolfeOut = Returned(FALSE)
    /\ Candidate # wolfeArgs.parameters
    /\ wolfeEvals = <<Candidate>>

(***************************************************************************)
(* C13: every invocation of an accessor calls each of its underlying       *)
(* functions exactly once, with the caller's argument, also when the same  *)
(* input is repeated: after n invocations of an accessor each of its       *)
(* underlying functions was called n times for it, and the Problem is as   *)
(* constructed.                                                            *)
(***************************************************************************)
\* the function behind obj, jac or hess, by the priority order
UnderlyingSingle(acc, args) ==
    IF HasSource(acc, args)
    THEN {SourceOrder(acc)[Min(Available(acc, args))][1]}
    ELSE {}

\* the supplied functions an accessor has to call, by the priority tables
Underlying(acc, args) ==
    IF acc \in SingleAccessors THEN UnderlyingSingle(acc, args)
    ELSE IF acc \in PairAccessors
    THEN IF PairFunc(acc)[1] \in args THEN {PairFunc(acc)[1]}
         ELSE IF "obj_jac_hess_func" \in args THEN {"obj_jac_hess_func"}
         ELSE UnderlyingSingle(PairParts(acc)[1], args)
                 \cup UnderlyingSingle(PairParts(acc)[2], args)
    ELSE IF "obj_jac_hess_func" \in args THEN {"obj_jac_hess_func"}
    ELSE IF "obj_jac_func" \in args
    THEN {"obj_jac_func"} \cup UnderlyingSingle("get_hess", args)
    ELSE IF "obj_hess_func" \in args
    THEN {"obj_hess_func"} \cup UnderlyingSingle("get_jac", args)
    ELSE IF "jac_hess_func" \in args
    THEN {"jac_hess_func"} \cup UnderlyingSingle("get_obj", args)
    ELSE UnderlyingSingle("get_obj", args) \cup UnderlyingSingle("get_jac", args)
            \cup UnderlyingSingle("get_hess", args)

\* how often f must have been called: once for each invocation of an
\* accessor it underlies
ExpectedCalls(f) ==
    SumOver([acc \in AccessorNames |->
                IF f \in Underlying(acc, supplied) THEN invoked[acc] ELSE 0],
            AccessorNames)

C13_FreshCallsOncePerInvocation ==
    phase = "built"
       => /\ \A f \in FuncNames : called[f] = ExpectedCalls(f)
          /\ lastAcc # ""
                => /\ Len(lastCalls) = Cardinality(Underlying(lastAcc, supplied))
                   /\ {lastCalls[k] : k \in DOMAIN lastCalls} =
                         {<<f, lastX>> : f \in Underlying(lastAcc, supplied)}
          /\ accessors = Problem__init__(supplied)

\* obj_func, jac_func and hess_func supplied separately and
\* get_obj_jac_hess invoked twice: each was called twice
C13_Witness ==
    /\ phase = "built"
    /\ supplied = {"obj_func", "jac_func", "hess_func"}
    /\ invoked["get_obj_jac_hess"] = 2
    /\ Invocations = 2
    /\ called["obj_func"] = 2
    /\ called["jac_func"] = 2
    /\ called["hess_func"] = 2
    /\ Len(lastCalls) = 3

(***************************************************************************)
(* C11: check_gradient accepts f(x) = x^2 with df(x) = 2x for every input  *)
(* vector, and rejects df(x) = 3x with an assertion failure for every x    *)
(* that has a nonzero component.                                           *)
(***************************************************************************)
GradientCalled == gradOut # "not called"

\* some component of the checked input is not zero
SomeNonzero == \E k \in DOMAIN gradArgs.inputs : gradArgs.inputs[k] # 0

\* sum of the absolute values of the components of the checked input
SumAbs ==
    SumTo([k \in DOMAIN gradArgs.inputs |-> Abs(gradArgs.inputs[k])],
          Len(gradArgs.inputs))

\* the mean absolute component of the checked input exceeds epsilon
MeanAbsExceedsEpsilon == SumAbs > UnitsPerEpsilon * Len(gradArgs.inputs)

====
